---------------------------- MODULE Spec2Model ----------------------------
(***************************************************************************)
(* A model of three programs of the repository:                            *)
(*   heredity/heredity.py   exact inference over a family pedigree         *)
(*   tictactoe/tictactoe.py the board functions and the minimax player     *)
(*   pagerank/pagerank.py   PageRank by sampling                           *)
(* Each program has its own specification (SpecHeredity, SpecTTT,          *)
(* SpecPagerank); the variables of the other programs stay as Init left    *)
(* them.                                                                   *)
(***************************************************************************)
EXTENDS Integers, Sequences, FiniteSets, TLC

VARIABLES
    \* heredity.py, main
    rows,           \* the rows of the CSV file load_data reads
    people,         \* load_data's result
    probabilities,  \* the table of gene and trait probabilities
    ti, oi, gi,     \* positions of the three nested loops of main
    p,              \* main's local p, the last joint probability
    calls,          \* the hypotheses passed to joint_probability and update
    psum,           \* the sum of the values p took
    pc,             \* where main is: "load", "loop", "done", "crashed"
    \* tictactoe.py
    board,
    \* pagerank.py, sample_pagerank
    corpus, damping_factor, n, ranks, page, i, pcS

hvars == <<rows, people, probabilities, ti, oi, gi, p, calls, psum, pc>>
tvars == <<board>>
svars == <<corpus, damping_factor, n, ranks, page, i, pcS>>
vars == <<hvars, tvars, svars>>

(***************************************************************************)
(* Arithmetic.  The programs compute with Python floats; the model         *)
(* computes the same expressions exactly, on rationals num/den whose       *)
(* numerator and denominator are naturals of any size, held as sequences   *)
(* of base-1000 digits, least significant first, without leading zeros.    *)
(***************************************************************************)
Base == 10 ^ 3

RECURSIVE BigOfInt(_)
BigOfInt(k) == IF k = 0 THEN <<>> ELSE <<k % Base>> \o BigOfInt(k \div Base)

RECURSIVE BigAddC(_, _, _)
BigAddC(a, b, c) ==
    IF a = <<>> /\ b = <<>> THEN BigOfInt(c)
    ELSE LET x == IF a = <<>> THEN 0 ELSE Head(a)
             y == IF b = <<>> THEN 0 ELSE Head(b)
             s == x + y + c
         IN  <<s % Base>> \o BigAddC(IF a = <<>> THEN a ELSE Tail(a),
                                     IF b = <<>> THEN b ELSE Tail(b),
                                     s \div Base)

BigAdd(a, b) == BigAddC(a, b, 0)

RECURSIVE BigMulSmallC(_, _, _)
BigMulSmallC(a, k, c) ==
    IF a = <<>> THEN BigOfInt(c)
    ELSE LET s == Head(a) * k + c
         IN  <<s % Base>> \o BigMulSmallC(Tail(a), k, s \div Base)

\* a times k, for k below 2 * 10^6
BigMulSmall(a, k) == IF k = 0 THEN <<>> ELSE BigMulSmallC(a, k, 0)

\* a times Base^e
BigShift(a, e) == IF a = <<>> THEN a ELSE [j \in 1..e |-> 0] \o a

RECURSIVE BigMul(_, _)
BigMul(a, b) ==
    IF a = <<>> THEN <<>>
    ELSE BigAdd(BigMulSmall(b, Head(a)), BigShift(BigMul(Tail(a), b), 1))

Rat(a, b) == [num |-> a, den |-> b]
Zero == Rat(<<>>, <<1>>)
RatAdd(x, y) ==
    IF x.den = y.den THEN Rat(BigAdd(x.num, y.num), x.den)
    ELSE Rat(BigAdd(BigMul(x.num, y.den), BigMul(y.num, x.den)),
             BigMul(x.den, y.den))
RatDiv(x, y) == Rat(BigMul(x.num, y.den), BigMul(x.den, y.num))
RatEq(x, y) == BigMul(x.num, y.den) = BigMul(y.num, x.den)


(***************************************************************************)
(* heredity/heredity.py                                                    *)
(***************************************************************************)
\* The largest number of rows of the CSV file.
MaxPeople == 3

None == "None"
\* A name that is no row of the file.
Nobody == "Nobody"
NameSeq == <<"Harry", "James", "Lily", "Molly", "Arthur">>

\* PROBS, in hundredths.
PROBS_gene(genes) == CASE genes = 2 -> 1 [] genes = 1 -> 3 [] genes = 0 -> 96
PROBS_trait(genes, t) ==
    CASE genes = 2 -> (IF t THEN 65 ELSE 35)
      [] genes = 1 -> (IF t THEN 56 ELSE 44)
      [] genes = 0 -> (IF t THEN 1 ELSE 99)
PROBS_mutation == 1

\* load_data: blank mother and father cells become None; the trait cell
\* becomes True, False or None.  Nothing else is looked at.
load_data(rws) ==
    [name \in DOMAIN rws |->
        [name   |-> name,
         mother |-> IF rws[name].mother = "" THEN None ELSE rws[name].mother,
         father |-> IF rws[name].father = "" THEN None ELSE rws[name].father,
         trait  |-> IF rws[name].trait = "1" THEN "True"
                    ELSE IF rws[name].trait = "0" THEN "False" ELSE None]]

\* list(s): the order in which Python lists a set is not fixed by the
\* program; the model lists the names in the order of NameSeq.
ListOf(s) == SelectSeq(NameSeq, LAMBDA nm : nm \in s)

\* itertools.combinations(lst, r), as sets, in its order.
RECURSIVE combinations(_, _)
combinations(lst, r) ==
    IF r = 0 THEN << {} >>
    ELSE IF Len(lst) < r THEN << >>
    ELSE LET withHead == combinations(Tail(lst), r - 1)
         IN  [k \in 1..Len(withHead) |-> {Head(lst)} \cup withHead[k]]
             \o combinations(Tail(lst), r)

\* chain.from_iterable(combinations(lst, r) for r in range(from, upto))
RECURSIVE chain(_, _, _)
chain(lst, from, upto) ==
    IF from >= upto THEN << >>
    ELSE combinations(lst, from) \o chain(lst, from + 1, upto)

\* range(len(s)) for range(len(s) + 1)
powerset_short(s) == LET lst == ListOf(s) IN chain(lst, 0, Len(lst))

powerset(s) == LET lst == ListOf(s) IN chain(lst, 0, Len(lst) + 1)

TraitOf(b) == IF b THEN "True" ELSE "False"

fails_evidence(ppl, have_trait) ==
    \E person \in DOMAIN ppl :
        /\ ppl[person].trait # None
        /\ ppl[person].trait # TraitOf(person \in have_trait)

\* pass_down, in hundredths.
pass_down(genes, passing) ==
    IF (genes = 2 /\ passing) \/ (genes = 0 /\ ~passing) THEN 100 - PROBS_mutation
    ELSE IF (genes = 2 /\ ~passing) \/ (genes = 0 /\ passing) THEN PROBS_mutation
    ELSE 50

GeneCount(name, one_gene, two_genes) ==
    IF name \in two_genes THEN 2 ELSE IF name \in one_gene THEN 1 ELSE 0

\* Factor with the gene count of a parent read only when the parent comes
\* before the child in the listing, and taken as 0 otherwise.
Position(name) == CHOOSE k \in 1..Len(NameSeq) : NameSeq[k] = name
Factor_ordered(ppl, name, one_gene, two_genes, have_trait) ==
    IF ppl[name].mother = None /\ ppl[name].father = None
    THEN LET genes == GeneCount(name, one_gene, two_genes)
         IN  PROBS_gene(genes) * PROBS_trait(genes, name \in have_trait) * 100
    ELSE LET mother == ppl[name].mother
             father == ppl[name].father
             mg == IF mother \in DOMAIN ppl /\ Position(mother) < Position(name)
                   THEN GeneCount(mother, one_gene, two_genes) ELSE 0
             fg == IF father \in DOMAIN ppl /\ Position(father) < Position(name)
                   THEN GeneCount(father, one_gene, two_genes) ELSE 0
             geneChance ==
                 IF name \in two_genes
                 THEN pass_down(mg, TRUE) * pass_down(fg, TRUE)
                 ELSE IF name \in one_gene
                 THEN pass_down(mg, TRUE) * pass_down(fg, FALSE)
                      + pass_down(mg, FALSE) * pass_down(fg, TRUE)
                 ELSE pass_down(mg, FALSE) * pass_down(fg, FALSE)
             genes == GeneCount(name, one_gene, two_genes)
             traitChance == PROBS_trait(genes, name \in have_trait)
         IN  geneChance * traitChance

\* The value one iteration of joint_probability's loop adds to its set, in
\* millionths.
Factor(ppl, name, one_gene, two_genes, have_trait) ==
    IF ppl[name].mother = None /\ ppl[name].father = None
    THEN LET genes == GeneCount(name, one_gene, two_genes)
         IN  PROBS_gene(genes) * PROBS_trait(genes, name \in have_trait) * 100
    ELSE LET mother == ppl[name].mother
             father == ppl[name].father
             mg == GeneCount(mother, one_gene, two_genes)
             fg == GeneCount(father, one_gene, two_genes)
             geneChance ==
                 IF name \in two_genes
                 THEN pass_down(mg, TRUE) * pass_down(fg, TRUE)
                 ELSE IF name \in one_gene
                 THEN pass_down(mg, TRUE) * pass_down(fg, FALSE)
                      + pass_down(mg, FALSE) * pass_down(fg, TRUE)
                 ELSE pass_down(mg, FALSE) * pass_down(fg, FALSE)
             genes == GeneCount(name, one_gene, two_genes)
             traitChance == PROBS_trait(genes, name \in have_trait)
         IN  geneChance * traitChance

\* reduce(mul, S, 1) of a set of millionths
RECURSIVE BigProduct(_)
BigProduct(S) ==
    IF S = {} THEN <<1>>
    ELSE LET f == CHOOSE f \in S : TRUE
         IN  BigMulSmall(BigProduct(S \ {f}), f)

\* 10^(6 m)
Scale(m) == BigShift(<<1>>, 2 * m)

\* joint_probability: `probabilities` is a set, so equal values are in it
\* once.  The product of its k members is a number of 10^(-6k); it is
\* returned over the denominator 10^(6m), m the number of people.
joint_probability(ppl, one_gene, two_genes, have_trait) ==
    LET probs == {Factor(ppl, name, one_gene, two_genes, have_trait) :
                      name \in DOMAIN ppl}
        m == Cardinality(DOMAIN ppl)
    IN  Rat(BigShift(BigProduct(probs), 2 * (m - Cardinality(probs))), Scale(m))

\* update with one_gene and two_genes taken for each other
update_swapped(probs, one_gene, two_genes, have_trait, q) ==
    [person \in DOMAIN probs |->
        [gene  |-> [g \in 0..2 |->
                      IF g = GeneCount(person, two_genes, one_gene)
                      THEN RatAdd(probs[person].gene[g], q)
                      ELSE probs[person].gene[g]],
         trait |-> [t \in BOOLEAN |->
                      IF t = (person \in have_trait)
                      THEN RatAdd(probs[person].trait[t], q)
                      ELSE probs[person].trait[t]]]]

\* update that adds p to the trait cell True of everyone in no hypothesis
\* of have_trait as well: the test on have_trait left out
update_trait_always(probs, one_gene, two_genes, have_trait, q) ==
    [person \in DOMAIN probs |->
        [gene  |-> [g \in 0..2 |->
                      IF g = GeneCount(person, one_gene, two_genes)
                      THEN RatAdd(probs[person].gene[g], q)
                      ELSE probs[person].gene[g]],
         trait |-> [t \in BOOLEAN |->
                      IF t THEN RatAdd(probs[person].trait[t], q)
                      ELSE probs[person].trait[t]]]]

update(probs, one_gene, two_genes, have_trait, q) ==
    [person \in DOMAIN probs |->
        [gene  |-> [g \in 0..2 |->
                      IF g = GeneCount(person, one_gene, two_genes)
                      THEN RatAdd(probs[person].gene[g], q)
                      ELSE probs[person].gene[g]],
         trait |-> [t \in BOOLEAN |->
                      IF t = (person \in have_trait)
                      THEN RatAdd(probs[person].trait[t], q)
                      ELSE probs[person].trait[t]]]]

GeneTotal(probs, person) ==
    RatAdd(RatAdd(probs[person].gene[2], probs[person].gene[1]),
           probs[person].gene[0])
TraitTotal(probs, person) ==
    RatAdd(probs[person].trait[TRUE], probs[person].trait[FALSE])

\* normalize divides by a zero total when a total is zero
ZeroTotal(probs) ==
    \E person \in DOMAIN probs :
        \/ GeneTotal(probs, person).num = <<>>
        \/ TraitTotal(probs, person).num = <<>>

\* normalize with the total of a distribution taken over all of its values
\* but the last
normalize_short(probs) ==
    [person \in DOMAIN probs |->
        [gene  |-> [g \in 0..2 |->
                      RatDiv(probs[person].gene[g],
                             RatAdd(probs[person].gene[2], probs[person].gene[1]))],
         trait |-> [t \in BOOLEAN |->
                      RatDiv(probs[person].trait[t], probs[person].trait[TRUE])]]]

normalize(probs) ==
    [person \in DOMAIN probs |->
        [gene  |-> [g \in 0..2 |->
                      RatDiv(probs[person].gene[g], GeneTotal(probs, person))],
         trait |-> [t \in BOOLEAN |->
                      RatDiv(probs[person].trait[t], TraitTotal(probs, person))]]]

\* The table main starts from.
ZeroTable(ppl) ==
    [person \in DOMAIN ppl |->
        [gene |-> [g \in 0..2 |-> Zero], trait |-> [t \in BOOLEAN |-> Zero]]]

(* main.  The three nested loops run over powerset(names),                 *)
(* powerset(names) and powerset(names - one_gene); ti, oi and gi are the   *)
(* positions in them.                                                      *)
names == DOMAIN people
HaveTrait == powerset(names)[ti]
OneGene == powerset(names)[oi]
TwoGenes == powerset(names \ OneGene)[gi]

\* The rows of the files read: the first m names of NameSeq, for m up to
\* MaxPeople.  A person's parents are blank, or names of earlier rows; the
\* last row may also name one parent only, or parents that are no row.
ParentCells(m, k) ==
    {<<"", "">>}
    \cup {<<NameSeq[a], NameSeq[b]>> : a \in 1..(k - 1), b \in 1..(k - 1)}
    \cup (IF k = m THEN {<<NameSeq[1], "">>, <<Nobody, Nobody>>} ELSE {})

RowsOf(m) ==
    {rws \in [{NameSeq[k] : k \in 1..m} ->
                 [mother : {""} \cup {NameSeq[k] : k \in 1..m} \cup {Nobody},
                  father : {""} \cup {NameSeq[k] : k \in 1..m} \cup {Nobody},
                  trait : {"", "0", "1"}]] :
        \A k \in 1..m :
            <<rws[NameSeq[k]].mother, rws[NameSeq[k]].father>> \in ParentCells(m, k)}

\* people = load_data(sys.argv[1]) and the table of zeros
LoadData ==
    /\ pc = "load"
    /\ people' = load_data(rows)
    /\ probabilities' = ZeroTable(load_data(rows))
    /\ ti' = 1 /\ oi' = 1 /\ gi' = 1
    /\ pc' = "loop"
    /\ UNCHANGED <<rows, p, calls, psum, tvars, svars>>

\* if fails_evidence: continue
SkipTrait ==
    /\ pc = "loop"
    /\ ti <= Len(powerset(names))
    /\ fails_evidence(people, HaveTrait)
    /\ ti' = ti + 1
    /\ UNCHANGED <<rows, people, probabilities, oi, gi, p, calls, psum, pc,
                   tvars, svars>>

\* One pass of the innermost loop body, then the step to the next position.
Visit ==
    /\ pc = "loop"
    /\ ti <= Len(powerset(names))
    /\ ~fails_evidence(people, HaveTrait)
    /\ LET q == joint_probability(people, OneGene, TwoGenes, HaveTrait)
       IN  /\ p' = q
           /\ probabilities' = update(probabilities, OneGene, TwoGenes, HaveTrait, q)
           /\ psum' = RatAdd(psum, q)
    /\ calls' = Append(calls, <<OneGene, TwoGenes, HaveTrait>>)
    /\ IF gi < Len(powerset(names \ OneGene))
       THEN gi' = gi + 1 /\ UNCHANGED <<oi, ti>>
       ELSE IF oi < Len(powerset(names))
       THEN gi' = 1 /\ oi' = oi + 1 /\ UNCHANGED ti
       ELSE gi' = 1 /\ oi' = 1 /\ ti' = ti + 1
    /\ UNCHANGED <<rows, people, pc, tvars, svars>>

\* normalize(probabilities), after the loops
Normalize ==
    /\ pc = "loop"
    /\ ti > Len(powerset(names))
    /\ IF ZeroTotal(probabilities)
       THEN pc' = "crashed" /\ UNCHANGED probabilities
       ELSE pc' = "done" /\ probabilities' = normalize(probabilities)
    /\ UNCHANGED <<rows, people, ti, oi, gi, p, calls, psum, tvars, svars>>

NextHeredity == LoadData \/ SkipTrait \/ Visit \/ Normalize

\* main as a function of the pedigree: the same three loops, run to their
\* end, and normalize.
RECURSIVE LoopTwoGenes(_, _, _, _, _)
LoopTwoGenes(ppl, probs, have_trait, one_gene, k) ==
    LET ps == powerset(DOMAIN ppl \ one_gene)
    IN  IF k > Len(ps) THEN probs
        ELSE LoopTwoGenes(ppl,
                 update(probs, one_gene, ps[k], have_trait,
                        joint_probability(ppl, one_gene, ps[k], have_trait)),
                 have_trait, one_gene, k + 1)

RECURSIVE LoopOneGene(_, _, _, _)
LoopOneGene(ppl, probs, have_trait, k) ==
    LET ps == powerset(DOMAIN ppl)
    IN  IF k > Len(ps) THEN probs
        ELSE LoopOneGene(ppl, LoopTwoGenes(ppl, probs, have_trait, ps[k], 1),
                         have_trait, k + 1)

RECURSIVE LoopHaveTrait(_, _, _)
LoopHaveTrait(ppl, probs, k) ==
    LET ps == powerset(DOMAIN ppl)
    IN  IF k > Len(ps) THEN probs
        ELSE IF fails_evidence(ppl, ps[k]) THEN LoopHaveTrait(ppl, probs, k + 1)
        ELSE LoopHaveTrait(ppl, LoopOneGene(ppl, probs, ps[k], 1), k + 1)

main(ppl) == normalize(LoopHaveTrait(ppl, ZeroTable(ppl), 1))

(***************************************************************************)
(* tictactoe/tictactoe.py                                                  *)
(***************************************************************************)
X == "X"
O == "O"
EMPTY == "EMPTY"

\* What winner returns when there is no winner on a full board (None), and
\* the outcome of its raise Exception("Game is not over").
NoWinner == "None"
Raise == "Raise"

Idx == 0..2
Cells == Idx \X Idx

initial_state == [r \in Idx |-> [j \in Idx |-> EMPTY]]

player(b) ==
    LET numX == Cardinality({c \in Cells : b[c[1]][c[2]] = X})
        numO == Cardinality({c \in Cells : b[c[1]][c[2]] = O})
    IN  IF numX = numO THEN X ELSE O

actions(b) == {c \in Cells : b[c[1]][c[2]] = EMPTY}

\* result on a deepcopy of the board, as every caller in the file passes it;
\* the raise on an occupied cell is the guard of the callers (they draw the
\* action from actions(b)).
result(b, a) == [b EXCEPT ![a[1]][a[2]] = player(b)]

\* The loop over the rows: the first row that is all X or all O decides.
RECURSIVE CheckRows(_, _)
CheckRows(b, row) ==
    IF row > 2 THEN NoWinner
    ELSE IF \A j \in Idx : b[row][j] = X THEN X
    ELSE IF \A j \in Idx : b[row][j] = O THEN O
    ELSE CheckRows(b, row + 1)

\* The loop over the columns.
RECURSIVE CheckCols(_, _)
CheckCols(b, col) ==
    IF col > 2 THEN NoWinner
    ELSE IF \A k \in Idx : b[k][col] = X THEN X
    ELSE IF \A k \in Idx : b[k][col] = O THEN O
    ELSE CheckCols(b, col + 1)

\* The diagonal tests, in the order of the if/elif chain.  The third test
\* reads board[i][2 - 1], as the source does.
CheckDiagonals(b) ==
    IF \A k \in Idx : b[k][k] = X THEN X
    ELSE IF \A k \in Idx : b[k][k] = O THEN O
    ELSE IF \A k \in Idx : b[k][2 - 1] = X THEN X
    ELSE IF \A k \in Idx : b[k][2 - k] = O THEN O
    ELSE NoWinner

winner(b) ==
    LET r == CheckRows(b, 0)
        c == CheckCols(b, 0)
        d == CheckDiagonals(b)
    IN  IF r # NoWinner THEN r
        ELSE IF c # NoWinner THEN c
        ELSE IF d # NoWinner THEN d
        ELSE IF \A cell \in Cells : b[cell[1]][cell[2]] # EMPTY THEN NoWinner
        ELSE Raise

terminal(b) == winner(b) # Raise

utility(b) ==
    LET win == winner(b)
    IN  IF win = X THEN 1 ELSE IF win = O THEN -1 ELSE 0

Max(S) == CHOOSE v \in S : \A w \in S : w <= v
Min(S) == CHOOSE v \in S : \A w \in S : v <= w

Other(pl) == IF pl = X THEN O ELSE X

RECURSIVE minimaxValue(_, _)
minimaxValue(b, pl) ==
    IF terminal(b) THEN utility(b)
    ELSE LET vs == {minimaxValue(result(b, a), Other(pl)) : a \in actions(b)}
         IN  IF pl = X THEN Max(vs) ELSE Min(vs)

\* minimax keeps the first action, in the iteration order of the set
\* actions(board), whose value is strictly better than every earlier one.
\* The iteration order of a Python set is not fixed by the program, so the
\* result is any action whose value is the best one.
minimax(b) ==
    LET currPlayer == player(b)
        nextPlayer == Other(currPlayer)
        mm == [a \in actions(b) |-> minimaxValue(result(b, a), nextPlayer)]
        best == IF currPlayer = X THEN Max({mm[a] : a \in actions(b)})
                ELSE Min({mm[a] : a \in actions(b)})
    IN  {a \in actions(b) : mm[a] = best}

\* A move of the game: result(board, action) for an action of actions(board),
\* while terminal(board) is False.
Move ==
    /\ ~terminal(board)
    /\ \E a \in actions(board) : board' = result(board, a)
    /\ UNCHANGED <<hvars, svars>>

\* The move of the computer: result(board, minimax(board)).
MinimaxMove ==
    /\ ~terminal(board)
    /\ \E a \in minimax(board) : board' = result(board, a)
    /\ UNCHANGED <<hvars, svars>>

NextTTT == Move \/ MinimaxMove

(***************************************************************************)
(* pagerank/pagerank.py                                                    *)
(***************************************************************************)
\* The largest number of pages of a corpus, and the largest n.
MaxPages == 3
MaxSamples == 3

\* DAMPING, in hundredths; the other damping factors tried are 0 and 1.
DAMPING == 85
Dampings == {0, DAMPING, 100}

\* What crawl returns: each page of 1..m with a set of other pages.
Corpora ==
    UNION {{c \in [1..m -> SUBSET (1..m)] : \A pg \in 1..m : pg \notin c[pg]} :
               m \in 1..MaxPages}

\* transition_model: the values model[pg], over the common denominator
\* 100 * len(corpus[page]) * len(corpus) (100 * len(corpus) for a page
\* without links).
transition_model(crp, pg0, damping) ==
    LET links == crp[pg0]
        L == IF links # {} THEN Cardinality(links) ELSE 1
        N == Cardinality(DOMAIN crp)
        d == IF links # {} THEN damping ELSE 0
    IN  [num |-> [pg \in DOMAIN crp |->
                    (IF pg \in links THEN d * N ELSE 0) + (100 - d) * L],
         den |-> 100 * L * N]

\* weighted_random_by_dct for the draw rand_val = r / model.den: the loop
\* over dct.items(), from key k on, with the running total so far.  0 is
\* the None of a loop that ends without a return; the values of a model sum
\* to 1 and rand_val is below 1, so in exact arithmetic it never does.
RECURSIVE WeightedScan(_, _, _, _)
WeightedScan(model, k, total, r) ==
    IF k > Cardinality(DOMAIN model.num) THEN 0
    ELSE IF r <= total + model.num[k] THEN k
    ELSE WeightedScan(model, k + 1, total + model.num[k], r)

weighted_random_by_dct(model, r) == WeightedScan(model, 1, 0, r)

\* page = random.choice(list(corpus)); ranks[page] += 1
ChooseFirst ==
    /\ pcS = "start"
    /\ \E pg \in DOMAIN corpus :
        /\ page' = pg
        /\ ranks' = [ranks EXCEPT ![pg].num = @ + 1]
    /\ pcS' = "sample"
    /\ UNCHANGED <<corpus, damping_factor, n, i, hvars, tvars>>

\* One pass of the loop for i in range(n), for each draw of random.random()
\* on the grid of the model's denominator.
Sample ==
    /\ pcS = "sample"
    /\ i < n
    /\ LET model == transition_model(corpus, page, damping_factor)
       IN  \E pg \in {weighted_random_by_dct(model, r) : r \in 0..(model.den - 1)} :
              /\ page' = pg
              /\ ranks' = [ranks EXCEPT ![pg].num = @ + 1]
    /\ i' = i + 1
    /\ UNCHANGED <<corpus, damping_factor, n, pcS, hvars, tvars>>

\* for rank in ranks: ranks[rank] /= n; return ranks
Finish ==
    /\ pcS = "sample"
    /\ i = n
    /\ ranks' = [pg \in DOMAIN ranks |->
                    [num |-> ranks[pg].num, den |-> ranks[pg].den * n]]
    /\ pcS' = "done"
    /\ UNCHANGED <<corpus, damping_factor, n, page, i, hvars, tvars>>

NextPagerank == ChooseFirst \/ Sample \/ Finish

(***************************************************************************)
(* The three specifications.  Each starts its own program and leaves the   *)
(* other two idle.                                                         *)
(***************************************************************************)
InitHeredity ==
    /\ \E m \in 1..MaxPeople : rows \in RowsOf(m)
    /\ people = << >> /\ probabilities = << >>
    /\ ti = 0 /\ oi = 0 /\ gi = 0 /\ p = Zero /\ calls = << >>
    /\ psum = Zero /\ pc = "load"
    /\ board = initial_state
    /\ corpus = << >> /\ damping_factor = 0 /\ n = 0 /\ ranks = << >>
    /\ page = 0 /\ i = 0 /\ pcS = "idle"

InitTTT ==
    /\ rows = << >> /\ people = << >> /\ probabilities = << >>
    /\ ti = 0 /\ oi = 0 /\ gi = 0 /\ p = Zero /\ calls = << >>
    /\ psum = Zero /\ pc = "idle"
    /\ board = initial_state
    /\ corpus = << >> /\ damping_factor = 0 /\ n = 0 /\ ranks = << >>
    /\ page = 0 /\ i = 0 /\ pcS = "idle"

InitPagerank ==
    /\ rows = << >> /\ people = << >> /\ probabilities = << >>
    /\ ti = 0 /\ oi = 0 /\ gi = 0 /\ p = Zero /\ calls = << >>
    /\ psum = Zero /\ pc = "idle"
    /\ board = initial_state
    /\ corpus \in Corpora
    /\ damping_factor \in Dampings
    /\ n \in 1..MaxSamples
    /\ ranks = [pg \in DOMAIN corpus |-> [num |-> 0, den |-> 1]]
    /\ page = 0 /\ i = 0 /\ pcS = "start"

SpecHeredity == InitHeredity /\ [][NextHeredity]_vars
SpecTTT == InitTTT /\ [][NextTTT]_vars
SpecPagerank == InitPagerank /\ [][NextPagerank]_vars

(***************************************************************************)
(* Properties of heredity.py                                               *)
(***************************************************************************)
\* The Pedigree invariant: the parents of a person are both absent, or both
\* are persons of the pedigree.
WellFormed(ppl) ==
    \A person \in DOMAIN ppl :
        \/ ppl[person].mother = None /\ ppl[person].father = None
        \/ ppl[person].mother \in DOMAIN ppl /\ ppl[person].father \in DOMAIN ppl

Last(sq) == sq[Len(sq)]

\* The product of one factor per person, over 10^(6m).
RECURSIVE ProductOverPersons(_, _, _, _, _)
ProductOverPersons(ppl, persons, one_gene, two_genes, have_trait) ==
    IF persons = {} THEN <<1>>
    ELSE LET person == CHOOSE person \in persons : TRUE
         IN  BigMulSmall(ProductOverPersons(ppl, persons \ {person}, one_gene,
                                            two_genes, have_trait),
                         Factor(ppl, person, one_gene, two_genes, have_trait))

\* C1: for a pedigree that satisfies the Pedigree invariants and a hypothesis
\* with one_gene and two_genes disjoint, joint_probability returns the
\* product of one factor per person, also when persons have equal factors.
C1_JointIsProductPerPerson ==
    (pc = "loop" /\ calls # << >> /\ WellFormed(people)) =>
        LET h == Last(calls)
        IN  h[1] \cap h[2] = {} =>
               p = Rat(ProductOverPersons(people, DOMAIN people, h[1], h[2], h[3]),
                       Scale(Cardinality(DOMAIN people)))

\* C2: for a pedigree with a half-specified parent pair or a parent that is
\* no person of it, joint_probability and update are never called and no
\* table is produced.
C2_MalformedIsRejected ==
    (rows # << >> /\ ~WellFormed(load_data(rows))) =>
        (calls = << >> /\ pc \notin {"done"})

\* The admissible hypotheses of a pedigree.
Admissible(ppl) ==
    {h \in (SUBSET DOMAIN ppl) \X (SUBSET DOMAIN ppl) \X (SUBSET DOMAIN ppl) :
        /\ h[1] \cap h[2] = {}
        /\ \A person \in DOMAIN ppl :
              ppl[person].trait # None =>
                  ppl[person].trait = TraitOf(person \in h[3])}

Known(ppl) == {person \in DOMAIN ppl : ppl[person].trait # None}

\* C3: the loops of main pass to joint_probability and update the admissible
\* hypotheses, each once, 3^n * 2^(n-k) of them, and no other.
C3_EnumerationIsExact ==
    /\ (pc = "loop" /\ calls # << >>) => Last(calls) \in Admissible(people)
    /\ pc \in {"done", "crashed"} =>
          /\ {calls[k] : k \in 1..Len(calls)} = Admissible(people)
          /\ Len(calls) = Cardinality(Admissible(people))
          /\ Len(calls) = 3 ^ Cardinality(DOMAIN people)
                          * 2 ^ (Cardinality(DOMAIN people)
                                 - Cardinality(Known(people)))

C3_Witness ==
    /\ pc = "done"
    /\ Cardinality(DOMAIN people) = 3
    /\ Cardinality(Known(people)) = 1
    /\ Len(calls) = 108

RatMul(x, y) == Rat(BigMul(x.num, y.num), BigMul(x.den, y.den))
IsOne(x) == x.num = x.den /\ x.num # << >>

\* C4: normalize leaves every person's three gene probabilities with sum 1
\* and two trait probabilities with sum 1, in the proportions of the totals
\* before it.
C4_NormalizeSumsToOne ==
    [][(pc = "loop" /\ pc' = "done") =>
          \A person \in DOMAIN people :
              /\ IsOne(GeneTotal(probabilities', person))
              /\ IsOne(TraitTotal(probabilities', person))
              /\ \A g1 \in 0..2, g2 \in 0..2 :
                    RatEq(RatMul(probabilities'[person].gene[g1],
                                 probabilities[person].gene[g2]),
                          RatMul(probabilities'[person].gene[g2],
                                 probabilities[person].gene[g1]))
              /\ RatEq(RatMul(probabilities'[person].trait[TRUE],
                              probabilities[person].trait[FALSE]),
                       RatMul(probabilities'[person].trait[FALSE],
                              probabilities[person].trait[TRUE]))]_vars

\* A normalized table of three persons with a gene probability that is
\* neither 0 nor 1.
C4_Witness ==
    /\ pc = "done"
    /\ Cardinality(DOMAIN people) = 3
    /\ \E person \in DOMAIN people :
          /\ probabilities[person].gene[1].num # << >>
          /\ probabilities[person].gene[1].num # probabilities[person].gene[1].den

SingleFounderUnknown ==
    /\ DOMAIN people = {NameSeq[1]}
    /\ people[NameSeq[1]].mother = None
    /\ people[NameSeq[1]].father = None
    /\ people[NameSeq[1]].trait = None

Renamings(S) == {r \in [S -> S] : \A a \in S, b \in S : r[a] = r[b] => a = b}
Renamed(r, v) == IF v \in DOMAIN r THEN r[v] ELSE v
Rename(ppl, r) ==
    [nm \in {r[x] : x \in DOMAIN ppl} |->
        LET x == CHOOSE x \in DOMAIN ppl : r[x] = nm
        IN  [name |-> nm,
             mother |-> Renamed(r, ppl[x].mother),
             father |-> Renamed(r, ppl[x].father),
             trait |-> ppl[x].trait]]
RenameSet(S, r) == {r[x] : x \in S}

\* C6: under every bijective renaming of the persons, joint_probability of the
\* renamed hypothesis on the renamed pedigree is that of the hypothesis, and
\* the table of the renamed pedigree gives each renamed person the
\* distributions of the person.
C6_RenamingInvariance ==
    /\ (pc = "loop" /\ calls # << >>) =>
          \A r \in Renamings(DOMAIN people) :
              LET h == Last(calls)
              IN  joint_probability(Rename(people, r), RenameSet(h[1], r),
                                    RenameSet(h[2], r), RenameSet(h[3], r)) = p
    /\ pc = "done" =>
          \A r \in Renamings(DOMAIN people) :
              LET table == main(Rename(people, r))
              IN  \A person \in DOMAIN people :
                      table[r[person]] = probabilities[person]

\* The table of a family of three with a child of two different parents.
C6_Witness ==
    /\ pc = "done"
    /\ Cardinality(DOMAIN people) = 3
    /\ \E person \in DOMAIN people :
          /\ people[person].mother \in DOMAIN people
          /\ people[person].father \in DOMAIN people
          /\ people[person].mother # people[person].father

\* C10: each call of update adds p to one gene cell and one trait cell of
\* every person, those of the hypothesis, and leaves the other cells as they
\* were; the gene cells and the trait cells of a person both sum to the sum
\* of the values of p so far, and the trait cell that contradicts a known
\* trait stays 0.
C10_Totals ==
    pc = "loop" =>
        \A person \in DOMAIN people :
            /\ RatEq(GeneTotal(probabilities, person), psum)
            /\ RatEq(TraitTotal(probabilities, person), psum)
            /\ people[person].trait = "True" =>
                  probabilities[person].trait[FALSE].num = << >>
            /\ people[person].trait = "False" =>
                  probabilities[person].trait[TRUE].num = << >>

C10_Step ==
    calls' # calls =>
        LET h == Last(calls')
        IN  \A person \in DOMAIN people :
                /\ \A g \in 0..2 :
                      probabilities'[person].gene[g] =
                          IF g = GeneCount(person, h[1], h[2])
                          THEN RatAdd(probabilities[person].gene[g], p')
                          ELSE probabilities[person].gene[g]
                /\ \A t \in BOOLEAN :
                      probabilities'[person].trait[t] =
                          IF t = (person \in h[3])
                          THEN RatAdd(probabilities[person].trait[t], p')
                          ELSE probabilities[person].trait[t]
                /\ p'.num # << >>

\* C10: in every state of the loops the totals agree with the sum of p, and
\* every call of update changes the table as stated.
C10_UpdateAccumulates == [](C10_Totals) /\ [][C10_Step]_vars

\* Half of the hypotheses of a family of three, one of known trait, added up.
C10_Witness ==
    /\ pc = "loop"
    /\ Cardinality(DOMAIN people) = 3
    /\ Cardinality(Known(people)) = 1
    /\ Len(calls) = 54
    /\ psum.num # << >>

(***************************************************************************)
(* Properties of tictactoe.py                                              *)
(***************************************************************************)
\* pl holds a row, a column or one of the two diagonals.
HasLine(b, pl) ==
    \/ \E r \in Idx : b[r][0] = pl /\ b[r][1] = pl /\ b[r][2] = pl
    \/ \E c \in Idx : b[0][c] = pl /\ b[1][c] = pl /\ b[2][c] = pl
    \/ b[0][0] = pl /\ b[1][1] = pl /\ b[2][2] = pl
    \/ b[0][2] = pl /\ b[1][1] = pl /\ b[2][0] = pl
Count(b, pl) == Cardinality({c \in Cells : b[c[1]][c[2]] = pl})
Full(b) == \A c \in Cells : b[c[1]][c[2]] # EMPTY

\* The boards that alternating moves from the empty board reach when the game
\* stops at the first line of three.
Legal(b) ==
    /\ Count(b, X) \in {Count(b, O), Count(b, O) + 1}
    /\ HasLine(b, X) => (Count(b, X) = Count(b, O) + 1 /\ ~HasLine(b, O))
    /\ HasLine(b, O) => (Count(b, X) = Count(b, O) /\ ~HasLine(b, X))

\* C7: on a board reached by legal alternating moves, winner returns X when X
\* holds a row, a column or a diagonal, and O when O does; terminal is True
\* and utility is 1 or -1 there.
C7_WinnerSeesEveryLine ==
    Legal(board) =>
        /\ HasLine(board, X) =>
              (winner(board) = X /\ terminal(board) /\ utility(board) = 1)
        /\ HasLine(board, O) =>
              (winner(board) = O /\ terminal(board) /\ utility(board) = -1)

\* The value of a board under the rules of the game, X maximizing.
RECURSIVE GameValue(_)
GameValue(b) ==
    IF HasLine(b, X) THEN 1
    ELSE IF HasLine(b, O) THEN -1
    ELSE IF Full(b) THEN 0
    ELSE LET vs == {GameValue(result(b, a)) : a \in actions(b)}
         IN  IF player(b) = X THEN Max(vs) ELSE Min(vs)

GameOver(b) == HasLine(b, X) \/ HasLine(b, O) \/ Full(b)

\* C9: on a board reached by legal alternating moves where the game is not
\* over, minimax returns an action of actions(board) after which the value of
\* the game is the value of the board, the best value an action leads to.
C9_MinimaxIsOptimal ==
    (Legal(board) /\ ~GameOver(board)) =>
        LET after == [a \in actions(board) |-> GameValue(result(board, a))]
            value == IF player(board) = X
                     THEN Max({after[a] : a \in actions(board)})
                     ELSE Min({after[a] : a \in actions(board)})
            chosen == minimax(board)
        IN  /\ chosen # {}
            /\ \A a \in chosen : a \in actions(board) /\ after[a] = value

(***************************************************************************)
(* Properties of pagerank.py                                               *)
(***************************************************************************)
RECURSIVE SumNum(_, _)
SumNum(rks, pages) ==
    IF pages = {} THEN 0
    ELSE LET pg == CHOOSE pg \in pages : TRUE
         IN  rks[pg].num + SumNum(rks, pages \ {pg})

\* C8: the values sample_pagerank returns sum to 1 and each lies between 0
\* and 1: the visit counts sum to n, the divisor.
C8_RanksSumToOne ==
    pcS = "done" =>
        /\ SumNum(ranks, DOMAIN ranks) = n
        /\ \A pg \in DOMAIN ranks :
              /\ ranks[pg].den = n
              /\ 0 <= ranks[pg].num /\ ranks[pg].num <= ranks[pg].den

=============================================================================
